---- MODULE Spec2Model ----
(***************************************************************************)
(* The lesson-builder action layer: the fourteen server actions over the   *)
(* five tables LessonPlans, LessonObjectives, LessonSteps, LessonMaterials *)
(* and LessonJobs.                                                         *)
(*                                                                         *)
(* Every handler is one atomic step (one request at a time) in             *)
(*   Spec       all fourteen handlers, the tables holding MaxRows rows,     *)
(*   PlanSpec   the plan handlers and the clock,                            *)
(*   ChildSpec  createPlan and the objective, step and material handlers,   *)
(*   JobSpec    createPlan and the job handlers;                            *)
(* ConcSpec runs the child handlers of concurrent requests one database    *)
(* statement at a time; OwnSpec does so for every writing handler, the     *)
(* requests in flight together coming from different users.                *)
(* Ids are never given twice (autoIncrement), a deleted row's included.    *)
(***************************************************************************)
EXTENDS Integers, Sequences, FiniteSets, TLC

\* ------------------------------------------------------------------ bounds
MaxPlans == 2
MaxChildren == 1
MaxJobs == 1
MaxTime == 1
\* Spec: the rows the five tables hold together
MaxRows == 1

\* ------------------------------------------------------------------ values
\* undefined / NULL of a text value, and of a numeric value (ids, order)
None == "none"
NoNum == -1
\* the result of a query that matched no row: `const [row] = ...` of an empty list
NoRow == [id |-> NoNum]

Users == {"u1", "u2"}

PlanStatuses == {"draft", "published", "archived"}
JobStatuses == {"pending", "completed", "failed"}
Outputs == {"o1"}
Kinds == {"objective", "step", "material"}

\* integer ids a caller may send: 0, the ids the tables can hold
PlanIdInputs == 0..MaxPlans
ChildIdInputs == 0..MaxChildren
JobIdInputs == 0..MaxJobs

\* JavaScript truthiness of an optional integer: undefined and 0 are falsy
Truthy(n) == n # NoNum /\ n # 0

VARIABLES
  plans,        \* LessonPlans: a sequence, the row of id i at index i (never deleted)
  children,     \* [Kinds -> set of rows]: LessonObjectives, LessonSteps, LessonMaterials
  lastChildId,  \* [Kinds -> Nat]: the last id the table's autoincrement gave
  jobs,         \* LessonJobs: a sequence, the row of id i at index i (never deleted)
  clock,        \* what new Date() returns
  res,          \* Spec: the last handler's call and what it returned or threw
  procs         \* ConcSpec: the requests in flight, each with its position

vars == <<plans, children, lastChildId, jobs, clock, res, procs>>
db == <<plans, children, lastChildId, jobs>>

\* --------------------------------------------------------------- responses
Ok(op, caller, in, row, rows) ==
  [op |-> op, caller |-> caller, in |-> in, err |-> "ok", row |-> row, rows |-> rows]
Err(op, caller, in, code) ==
  [op |-> op, caller |-> caller, in |-> in, err |-> code, row |-> NoRow, rows |-> {}]

\* the handlers
Ops == {"createPlan", "updatePlan", "archivePlan", "listMyPlans", "getPlanWithDetails",
        "saveObjective", "deleteObjective", "saveStep", "deleteStep",
        "saveMaterial", "deleteMaterial", "createJob", "updateJob", "listJobs"}

\* no request is being handled
Idle == Err("none", None, [id |-> NoNum], "none")

\* the requests ConcSpec runs at a time, and a request slot that runs none
Procs == {"p1", "p2"}
IdleProc == [pc |-> "idle", op |-> "none", caller |-> None, in |-> [id |-> NoNum],
             ret |-> Idle]

\* ------------------------------------------------------------ the statements
PlanRows == {plans[i] : i \in 1..Len(plans)}
JobRows == {jobs[i] : i \in 1..Len(jobs)}

\* the row of a one-row result, or NoRow
OneOf(S) == IF S = {} THEN NoRow ELSE CHOOSE r \in S : TRUE

\* select().from(LessonPlans).where(and(eq(id, id), eq(ownerId, user))).limit(1)
SelectPlanAnyOwner(id, user) == OneOf({p \in PlanRows : p.id = id})
SelectPlanOwned(id, user) == OneOf({p \in PlanRows : p.id = id /\ p.ownerId = user})

\* select().from(LessonPlans).where(eq(ownerId, user))
SelectAllPlans(user) == PlanRows
SelectPlansByOwner(user) == {p \in PlanRows : p.ownerId = user}

\* insert(LessonPlans).values({...}).returning(): the new row
NewPlan(user, in) ==
  [id |-> Len(plans) + 1, ownerId |-> user, title |-> in.title,
   status |-> IF in.status = None THEN "draft" ELSE in.status,
   updatedAt |-> clock]

\* updatePlan's updateData: the fields of `rest` that are not undefined
UpdateDataAll(rest) == {"title", "status"}
UpdateData(rest) == {k \in {"title", "status"} : rest[k] # None}

\* a plan row with .set({...updateData, updatedAt: new Date()}) applied
SetPlanDefaultStatus(p, rest, keys) ==
  [p EXCEPT !.title = IF "title" \in keys THEN rest.title ELSE @,
            !.status = IF "status" \in keys THEN rest.status ELSE "draft",
            !.updatedAt = clock]
SetPlan(p, rest, keys) ==
  [p EXCEPT !.title = IF "title" \in keys THEN rest.title ELSE @,
            !.status = IF "status" \in keys THEN rest.status ELSE @,
            !.updatedAt = clock]

\* update(LessonPlans).set(...).where(and(eq(id, id), eq(ownerId, user))): whether
\* the statement's WHERE matches row p
PlanWhereAnyOwner(p, id, user) == p.id = id
PlanWhere(p, id, user) == p.id = id /\ p.ownerId = user

\* the table after the update, and the rows it returns
UpdatePlansWhere(id, user, rest, keys) ==
  [i \in 1..Len(plans) |->
     IF PlanWhere(plans[i], id, user) THEN SetPlan(plans[i], rest, keys) ELSE plans[i]]
UpdatedPlansWhere(id, user, rest, keys) ==
  {SetPlan(p, rest, keys) : p \in {q \in PlanRows : PlanWhere(q, id, user)}}

\* archivePlan's .set({status: "archived", updatedAt: new Date()})
ArchiveSet == [title |-> None, status |-> "archived"]

\* select().from(<child table>).where(eq(planId, planId))
SelectChildrenOfPlan(k, planId) == {r \in children[k] : r.planId = planId}

\* select().from(<child table>).where(eq(id, id)).limit(1)
SelectChildById(k, id) == OneOf({r \in children[k] : r.id = id})

\* the update path's check: !existing || existing.planId !== input.planId fails it
ChildFoundAnyPlan(existing, planId) == existing # NoRow
ChildFound(existing, planId) == existing # NoRow /\ existing.planId = planId

\* baseValues: order is input.order ?? 1 (LessonMaterials has no order)
BaseValues(k, in) ==
  [planId |-> in.planId, text |-> in.text,
   order |-> IF k = "material" THEN NoNum ELSE IF in.order = NoNum THEN 1 ELSE in.order]

\* update(<child table>).set(baseValues).where(eq(id, id)).returning(): the table
\* after, and the rows returned
SetChild(r, base) ==
  [r EXCEPT !.planId = base.planId, !.text = base.text, !.order = base.order]
UpdateChildWhereId(k, id, base) ==
  {IF r.id = id THEN SetChild(r, base) ELSE r : r \in children[k]}
UpdatedChildWhereId(k, id, base) ==
  {SetChild(r, base) : r \in {q \in children[k] : q.id = id}}

\* insert(<child table>).values(baseValues).returning(): the new row
NewChild(k, base) ==
  [id |-> lastChildId[k] + 1, planId |-> base.planId, text |-> base.text,
   order |-> base.order]

\* delete(<child table>).where(and(eq(id, id), eq(planId, planId))).returning()
DeletedChildById(k, id, planId) == {r \in children[k] : r.id = id}
DeletedChildWhere(k, id, planId) == {r \in children[k] : r.id = id /\ r.planId = planId}

\* whether a LessonJobs.planId satisfies its reference to LessonPlans.id (NULL does)
ReferencesPlan(planId) == planId = NoNum \/ planId \in 1..Len(plans)

\* insert(LessonJobs).values({...}).returning(): the new row
NewJob(user, in) ==
  [id |-> Len(jobs) + 1, planId |-> in.planId, userId |-> user,
   jobType |-> IF in.jobType = None THEN "full" ELSE in.jobType,
   output |-> in.output,
   status |-> IF in.status = None THEN "pending" ELSE in.status]

\* select().from(LessonJobs).where(and(eq(id, id), eq(userId, user))).limit(1)
SelectJobAnyUser(id, user) == OneOf({j \in JobRows : j.id = id})
SelectJobOwned(id, user) == OneOf({j \in JobRows : j.id = id /\ j.userId = user})

\* select().from(LessonJobs).where(eq(userId, user))
SelectJobsByUser(user) == {j \in JobRows : j.userId = user}

\* updateJob's updateData: output and status where not undefined
JobUpdateData(in) == {k \in {"output", "status"} : in[k] # None}

\* update(LessonJobs).set(updateData).where(eq(id, id)).returning(): the table
\* after, and the rows returned
SetJob(j, in, keys) ==
  [j EXCEPT !.output = IF "output" \in keys THEN in.output ELSE @,
            !.status = IF "status" \in keys THEN in.status ELSE @]
UpdateJobsWhereId(id, in, keys) ==
  [i \in 1..Len(jobs) |-> IF jobs[i].id = id THEN SetJob(jobs[i], in, keys) ELSE jobs[i]]
UpdatedJobsWhereId(id, in, keys) ==
  {SetJob(j, in, keys) : j \in {q \in JobRows : q.id = id}}

\* listJobs' filter: job.planId ? allowedPlanIds.has(job.planId) : true
MatchesPlan(job, allowedPlanIds) ==
  IF Truthy(job.planId) THEN job.planId \in allowedPlanIds ELSE TRUE

\* ------------------------------------------------------ authorization gate
\* every handler calls requireUser first: without a user it throws before any statement
requireUser(op) ==
  /\ res = Idle
  /\ res' = Err(op, None, [id |-> NoNum], "Unauthorized")
  /\ UNCHANGED <<db, clock, procs>>

\* ---------------------------------------------------------- plan handlers
\* title stands for the text fields of a plan, which the handlers treat alike
PlanInputs == [title : {"t1"}, status : PlanStatuses \cup {None}]
PlanUpdates == [id : PlanIdInputs, title : {None, "t2"}, status : PlanStatuses \cup {None}]
PlanLists == [status : PlanStatuses \cup {None}]
PlanIds == [id : PlanIdInputs]

createPlan(caller, in) ==
  /\ res = Idle
  /\ Len(plans) < MaxPlans
  /\ plans' = Append(plans, NewPlan(caller, in))
  /\ res' = Ok("createPlan", caller, in, NewPlan(caller, in), {})
  /\ UNCHANGED <<children, lastChildId, jobs, clock, procs>>

updatePlan(caller, in) ==
  /\ res = Idle
  /\ UNCHANGED <<children, lastChildId, jobs, clock, procs>>
  /\ LET existing == SelectPlanOwned(in.id, caller)
         keys == UpdateData(in)
     IN IF existing = NoRow
        THEN /\ res' = Err("updatePlan", caller, in, "NotFound")
             /\ UNCHANGED plans
        ELSE IF keys = {}
        THEN /\ res' = Ok("updatePlan", caller, in, existing, {})
             /\ UNCHANGED plans
        ELSE /\ plans' = UpdatePlansWhere(in.id, caller, in, keys)
             /\ res' = Ok("updatePlan", caller, in,
                          OneOf(UpdatedPlansWhere(in.id, caller, in, keys)), {})

archivePlan(caller, in) ==
  /\ res = Idle
  /\ UNCHANGED <<children, lastChildId, jobs, clock, procs>>
  /\ plans' = UpdatePlansWhere(in.id, caller, ArchiveSet, {"status"})
  /\ LET plan == OneOf(UpdatedPlansWhere(in.id, caller, ArchiveSet, {"status"}))
     IN res' = IF plan = NoRow
               THEN Err("archivePlan", caller, in, "NotFound")
               ELSE Ok("archivePlan", caller, in, plan, {})

listMyPlans(caller, in) ==
  /\ res = Idle
  /\ UNCHANGED <<db, clock, procs>>
  /\ LET found == SelectPlansByOwner(caller)
         filtered == IF in.status # None
                     THEN {p \in found : p.status = in.status}
                     ELSE found
     IN res' = Ok("listMyPlans", caller, in, NoRow, filtered)

getPlanWithDetails(caller, in) ==
  /\ res = Idle
  /\ UNCHANGED <<db, clock, procs>>
  /\ LET plan == SelectPlanOwned(in.id, caller)
     IN IF plan = NoRow
        THEN res' = Err("getPlanWithDetails", caller, in, "NotFound")
        ELSE res' = Ok("getPlanWithDetails", caller, in, plan,
                       UNION {{[kind |-> k, row |-> r] :
                                 r \in SelectChildrenOfPlan(k, in.id)} : k \in Kinds})

\* --------------------------------------------------------- child handlers
\* saveObjective, saveStep and saveMaterial are the same handler over their own
\* table, as are deleteObjective, deleteStep and deleteMaterial
SaveOps == {"saveObjective", "saveStep", "saveMaterial"}
DeleteOps == {"deleteObjective", "deleteStep", "deleteMaterial"}
SaveOp(k) == CASE k = "objective" -> "saveObjective"
               [] k = "step" -> "saveStep"
               [] k = "material" -> "saveMaterial"
DeleteOp(k) == CASE k = "objective" -> "deleteObjective"
                 [] k = "step" -> "deleteStep"
                 [] k = "material" -> "deleteMaterial"
KindOf(op) == CASE op \in {"saveObjective", "deleteObjective"} -> "objective"
                [] op \in {"saveStep", "deleteStep"} -> "step"
                [] op \in {"saveMaterial", "deleteMaterial"} -> "material"

\* id is optional. text stands for the required text of a row (text, description,
\* name); order is optional (LessonMaterials has none)
ChildSaves(k) == [id : {NoNum} \cup ChildIdInputs, planId : PlanIdInputs,
                  text : IF k = "material" THEN {"a", "b"} ELSE {"a"},
                  order : IF k = "material" THEN {NoNum} ELSE {NoNum, 2}]
ChildDeletes == [id : ChildIdInputs, planId : PlanIdInputs]

\* the rows the three child tables were given together
ChildTotal == lastChildId["objective"] + lastChildId["step"] + lastChildId["material"]

saveChild(k, caller, in) ==
  /\ res = Idle
  /\ UNCHANGED <<plans, jobs, clock, procs>>
  /\ IF SelectPlanOwned(in.planId, caller) = NoRow
     THEN /\ res' = Err(SaveOp(k), caller, in, "NotFound")
          /\ UNCHANGED <<children, lastChildId>>
     ELSE IF Truthy(in.id)
     THEN IF ~ChildFound(SelectChildById(k, in.id), in.planId)
          THEN /\ res' = Err(SaveOp(k), caller, in, "NotFound")
               /\ UNCHANGED <<children, lastChildId>>
          ELSE /\ children' = [children EXCEPT ![k] =
                                 UpdateChildWhereId(k, in.id, BaseValues(k, in))]
               /\ UNCHANGED lastChildId
               /\ res' = Ok(SaveOp(k), caller, in,
                            OneOf(UpdatedChildWhereId(k, in.id, BaseValues(k, in))), {})
     ELSE /\ ChildTotal < MaxChildren
          /\ children' = [children EXCEPT ![k] = @ \cup {NewChild(k, BaseValues(k, in))}]
          /\ lastChildId' = [lastChildId EXCEPT ![k] = @ + 1]
          /\ res' = Ok(SaveOp(k), caller, in, NewChild(k, BaseValues(k, in)), {})

deleteChild(k, caller, in) ==
  /\ res = Idle
  /\ UNCHANGED <<plans, lastChildId, jobs, clock, procs>>
  /\ IF SelectPlanOwned(in.planId, caller) = NoRow
     THEN /\ res' = Err(DeleteOp(k), caller, in, "NotFound")
          /\ UNCHANGED children
     ELSE LET deleted == DeletedChildWhere(k, in.id, in.planId)
          IN /\ children' = [children EXCEPT ![k] = @ \ deleted]
             /\ res' = IF deleted = {}
                       THEN Err(DeleteOp(k), caller, in, "NotFound")
                       ELSE Ok(DeleteOp(k), caller, in, OneOf(deleted), {})

saveObjective(caller, in) == saveChild("objective", caller, in)
deleteObjective(caller, in) == deleteChild("objective", caller, in)
saveStep(caller, in) == saveChild("step", caller, in)
deleteStep(caller, in) == deleteChild("step", caller, in)
saveMaterial(caller, in) == saveChild("material", caller, in)
deleteMaterial(caller, in) == deleteChild("material", caller, in)

\* ----------------------------------------------------------- job handlers
\* jobType and input are stored by createJob and never read or written again
JobInputs == [planId : {NoNum} \cup PlanIdInputs, jobType : {None},
              output : {None}, status : JobStatuses \cup {None}]
JobUpdates == [id : JobIdInputs, output : Outputs \cup {None},
               status : JobStatuses \cup {None}]
JobLists == [planId : {NoNum} \cup PlanIdInputs, status : JobStatuses \cup {None}]

\* fk: whether the store enforces that LessonJobs.planId references LessonPlans.id
createJob(caller, in, fk) ==
  /\ res = Idle
  /\ Len(jobs) < MaxJobs
  /\ UNCHANGED <<plans, children, lastChildId, clock, procs>>
  /\ IF Truthy(in.planId) /\ SelectPlanOwned(in.planId, caller) = NoRow
     THEN /\ res' = Err("createJob", caller, in, "NotFound")
          /\ UNCHANGED jobs
     ELSE IF fk /\ ~ReferencesPlan(in.planId)
     THEN /\ res' = Err("createJob", caller, in, "StoreError")
          /\ UNCHANGED jobs
     ELSE /\ jobs' = Append(jobs, NewJob(caller, in))
          /\ res' = Ok("createJob", caller, in, NewJob(caller, in), {})

updateJob(caller, in) ==
  /\ res = Idle
  /\ UNCHANGED <<plans, children, lastChildId, clock, procs>>
  /\ LET existing == SelectJobOwned(in.id, caller)
         keys == JobUpdateData(in)
     IN IF existing = NoRow
        THEN /\ res' = Err("updateJob", caller, in, "NotFound")
             /\ UNCHANGED jobs
        ELSE IF keys = {}
        THEN /\ res' = Ok("updateJob", caller, in, existing, {})
             /\ UNCHANGED jobs
        ELSE /\ jobs' = UpdateJobsWhereId(in.id, in, keys)
             /\ res' = Ok("updateJob", caller, in,
                          OneOf(UpdatedJobsWhereId(in.id, in, keys)), {})

listJobs(caller, in) ==
  /\ res = Idle
  /\ UNCHANGED <<db, clock, procs>>
  /\ LET owned == SelectPlansByOwner(caller)
         found == IF Truthy(in.planId)
                  THEN {p \in owned : p.id = in.planId}
                  ELSE owned
         allowedPlanIds == {p.id : p \in found}
         filtered == {j \in SelectJobsByUser(caller) :
                        /\ MatchesPlan(j, allowedPlanIds)
                        /\ (in.status # None => j.status = in.status)}
     IN IF Truthy(in.planId) /\ found = {}
        THEN res' = Err("listJobs", caller, in, "NotFound")
        ELSE res' = Ok("listJobs", caller, in, NoRow, filtered)

\* ------------------------------------------------------------ environment
\* new Date() moves on between requests
Tick ==
  /\ res = Idle
  /\ clock < MaxTime
  /\ clock' = clock + 1
  /\ UNCHANGED <<db, res, procs>>

\* the response goes back to the caller; the next request may start
Reply ==
  /\ res # Idle
  /\ res' = Idle
  /\ UNCHANGED <<db, clock, procs>>

Init ==
  /\ plans = << >>
  /\ children = [k \in Kinds |-> {}]
  /\ lastChildId = [k \in Kinds |-> 0]
  /\ jobs = << >>
  /\ clock = 0
  /\ res = Idle
  /\ procs = [p \in Procs |-> IdleProc]

\* ------------------------------------------- handlers, statement by statement
\* ConcSpec: a child handler of a request in slot p runs one database statement
\* at a time (each `await db...`), the statements of other requests in between.
\* pc is the statement the request runs next.
\* the calls ConcSpec makes: a create of one content, an update of row 1 to another,
\* a delete of row 1, each under any plan
ConcSaves(k) ==
  {in \in ChildSaves(k) :
     /\ in.planId \in 1..MaxPlans
     /\ \/ in.id = NoNum /\ in.text = "a" /\ in.order = NoNum
        \/ in.id = 1 /\ (in.text = "b" \/ in.order = 2)}
ConcDeletes == {in \in ChildDeletes : in.planId \in 1..MaxPlans /\ in.id = 1}

Goto(p, pc) == procs' = [procs EXCEPT ![p].pc = pc]
Done(p, ret) == procs' = [procs EXCEPT ![p].pc = "done", ![p].ret = ret]

\* the handler is called, requireUser finds the caller, and the first statement runs:
\* const [plan] = await db.select().from(LessonPlans).where(id and owner); if (!plan) throw
Call(p, op, caller, in) ==
  /\ procs[p].pc = "idle"
  /\ procs' = [procs EXCEPT ![p] =
       IF SelectPlanOwned(in.planId, caller) = NoRow
       THEN [pc |-> "done", op |-> op, caller |-> caller, in |-> in,
             ret |-> Err(op, caller, in, "NotFound")]
       ELSE [pc |-> IF op \in DeleteOps THEN "delete"
                    ELSE IF Truthy(in.id) THEN "find" ELSE "insert",
             op |-> op, caller |-> caller, in |-> in, ret |-> Idle]]
  /\ UNCHANGED <<db, clock, res>>

\* const [existing] = await db.select().from(<child table>).where(id); the planId check
StmtSelectChild(p) ==
  LET r == procs[p]
  IN /\ r.pc = "find"
     /\ IF ~ChildFound(SelectChildById(KindOf(r.op), r.in.id), r.in.planId)
        THEN Done(p, Err(r.op, r.caller, r.in, "NotFound"))
        ELSE Goto(p, "update")
     /\ UNCHANGED <<db, clock, res>>

\* const [row] = await db.update(<child table>).set(baseValues).where(id).returning();
\* return { row }
StmtUpdateChild(p) ==
  LET r == procs[p]
      k == KindOf(r.op)
  IN /\ r.pc = "update"
     /\ children' = [children EXCEPT ![k] =
                       UpdateChildWhereId(k, r.in.id, BaseValues(k, r.in))]
     /\ Done(p, Ok(r.op, r.caller, r.in,
                   OneOf(UpdatedChildWhereId(k, r.in.id, BaseValues(k, r.in))), {}))
     /\ UNCHANGED <<plans, lastChildId, jobs, clock, res>>

\* const [row] = await db.insert(<child table>).values(baseValues).returning()
StmtInsertChild(p) ==
  LET r == procs[p]
      k == KindOf(r.op)
  IN /\ r.pc = "insert"
     /\ ChildTotal < MaxChildren
     /\ children' = [children EXCEPT ![k] = @ \cup {NewChild(k, BaseValues(k, r.in))}]
     /\ lastChildId' = [lastChildId EXCEPT ![k] = @ + 1]
     /\ Done(p, Ok(r.op, r.caller, r.in, NewChild(k, BaseValues(k, r.in)), {}))
     /\ UNCHANGED <<plans, jobs, clock, res>>

\* const [deleted] = await db.delete(<child table>).where(id and planId).returning();
\* if (!deleted) throw
StmtDeleteChild(p) ==
  LET r == procs[p]
      k == KindOf(r.op)
      deleted == DeletedChildWhere(k, r.in.id, r.in.planId)
  IN /\ r.pc = "delete"
     /\ children' = [children EXCEPT ![k] = @ \ deleted]
     /\ Done(p, IF deleted = {}
                THEN Err(r.op, r.caller, r.in, "NotFound")
                ELSE Ok(r.op, r.caller, r.in, OneOf(deleted), {}))
     /\ UNCHANGED <<plans, lastChildId, jobs, clock, res>>

\* the response goes back to the caller; the slot is free
Return(p) ==
  /\ procs[p].pc = "done"
  /\ procs' = [procs EXCEPT ![p] = IdleProc]
  /\ UNCHANGED <<db, clock, res>>

\* OwnSpec: the plan and job handlers of a request in slot p, one statement at a time
\* the calls OwnSpec makes besides ConcSaves and ConcDeletes
\* the child tables OwnSpec works on: one with an order column, one without
OwnKinds == {"objective", "material"}
OwnPlanUpdates ==
  {in \in PlanUpdates : in.id \in 1..MaxPlans /\ in.title = None /\ in.status = "published"}
OwnPlanIds == {in \in PlanIds : in.id \in 1..MaxPlans}
OwnJobInputs == {in \in JobInputs : in.planId \in {NoNum, 1} /\ in.status = None}
OwnJobUpdates ==
  {in \in JobUpdates : in.id \in 1..MaxJobs /\ in.output = None /\ in.status = "completed"}

\* updatePlan is called, requireUser finds the caller, and the first statement runs:
\* const [existing] = await db.select().from(LessonPlans).where(id and owner);
\* if (!existing) throw; if updateData is empty return { plan: existing }
CallUpdatePlan(p, caller, in) ==
  /\ procs[p].pc = "idle"
  /\ procs' = [procs EXCEPT ![p] =
       LET existing == SelectPlanOwned(in.id, caller)
           call == [pc |-> "done", op |-> "updatePlan", caller |-> caller, in |-> in]
       IN IF existing = NoRow
          THEN call @@ [ret |-> Err("updatePlan", caller, in, "NotFound")]
          ELSE IF UpdateData(in) = {}
          THEN call @@ [ret |-> Ok("updatePlan", caller, in, existing, {})]
          ELSE [call EXCEPT !.pc = "updatePlan"] @@ [ret |-> Idle]]
  /\ UNCHANGED <<db, clock, res>>

\* const [plan] = await db.update(LessonPlans).set(...).where(id and owner).returning()
StmtUpdatePlan(p) ==
  LET r == procs[p]
      keys == UpdateData(r.in)
  IN /\ r.pc = "updatePlan"
     /\ plans' = UpdatePlansWhere(r.in.id, r.caller, r.in, keys)
     /\ Done(p, Ok("updatePlan", r.caller, r.in,
                   OneOf(UpdatedPlansWhere(r.in.id, r.caller, r.in, keys)), {}))
     /\ UNCHANGED <<children, lastChildId, jobs, clock, res>>

\* createPlan: requireUser and its one statement, the insert
CallCreatePlan(p, caller, in) ==
  /\ procs[p].pc = "idle"
  /\ Len(plans) < MaxPlans
  /\ plans' = Append(plans, NewPlan(caller, in))
  /\ procs' = [procs EXCEPT ![p] =
       [pc |-> "done", op |-> "createPlan", caller |-> caller, in |-> in,
        ret |-> Ok("createPlan", caller, in, NewPlan(caller, in), {})]]
  /\ UNCHANGED <<children, lastChildId, jobs, clock, res>>

\* archivePlan: requireUser and its one statement, the update by id and owner
CallArchivePlan(p, caller, in) ==
  /\ procs[p].pc = "idle"
  /\ plans' = UpdatePlansWhere(in.id, caller, ArchiveSet, {"status"})
  /\ procs' = [procs EXCEPT ![p] =
       LET plan == OneOf(UpdatedPlansWhere(in.id, caller, ArchiveSet, {"status"}))
       IN [pc |-> "done", op |-> "archivePlan", caller |-> caller, in |-> in,
           ret |-> IF plan = NoRow
                   THEN Err("archivePlan", caller, in, "NotFound")
                   ELSE Ok("archivePlan", caller, in, plan, {})]]
  /\ UNCHANGED <<children, lastChildId, jobs, clock, res>>

\* createJob is called, requireUser finds the caller, and with a planId the plan
\* select runs: if (input.planId) { const [plan] = await db.select()...; if (!plan) throw }
CallCreateJob(p, caller, in) ==
  /\ procs[p].pc = "idle"
  /\ procs' = [procs EXCEPT ![p] =
       IF Truthy(in.planId) /\ SelectPlanOwned(in.planId, caller) = NoRow
       THEN [pc |-> "done", op |-> "createJob", caller |-> caller, in |-> in,
             ret |-> Err("createJob", caller, in, "NotFound")]
       ELSE [pc |-> "insertJob", op |-> "createJob", caller |-> caller, in |-> in,
             ret |-> Idle]]
  /\ UNCHANGED <<db, clock, res>>

\* const [job] = await db.insert(LessonJobs).values({...}).returning()
StmtInsertJob(p) ==
  LET r == procs[p]
  IN /\ r.pc = "insertJob"
     /\ Len(jobs) < MaxJobs
     /\ jobs' = Append(jobs, NewJob(r.caller, r.in))
     /\ Done(p, Ok("createJob", r.caller, r.in, NewJob(r.caller, r.in), {}))
     /\ UNCHANGED <<plans, children, lastChildId, clock, res>>

\* updateJob is called, requireUser finds the caller, and the first statement runs:
\* const [existing] = await db.select().from(LessonJobs).where(id and userId);
\* if (!existing) throw; if updateData is empty return { job: existing }
CallUpdateJob(p, caller, in) ==
  /\ procs[p].pc = "idle"
  /\ procs' = [procs EXCEPT ![p] =
       LET existing == SelectJobOwned(in.id, caller)
           call == [pc |-> "done", op |-> "updateJob", caller |-> caller, in |-> in]
       IN IF existing = NoRow
          THEN call @@ [ret |-> Err("updateJob", caller, in, "NotFound")]
          ELSE IF JobUpdateData(in) = {}
          THEN call @@ [ret |-> Ok("updateJob", caller, in, existing, {})]
          ELSE [call EXCEPT !.pc = "updateJob"] @@ [ret |-> Idle]]
  /\ UNCHANGED <<db, clock, res>>

\* const [job] = await db.update(LessonJobs).set(updateData).where(id).returning()
StmtUpdateJob(p) ==
  LET r == procs[p]
      keys == JobUpdateData(r.in)
  IN /\ r.pc = "updateJob"
     /\ jobs' = UpdateJobsWhereId(r.in.id, r.in, keys)
     /\ Done(p, Ok("updateJob", r.caller, r.in,
                   OneOf(UpdatedJobsWhereId(r.in.id, r.in, keys)), {}))
     /\ UNCHANGED <<plans, children, lastChildId, clock, res>>

\* ---------------------------------------------------------- specifications
PlanOps ==
  \/ \E c \in Users, in \in PlanInputs : createPlan(c, in)
  \/ \E c \in Users, in \in PlanUpdates : updatePlan(c, in)
  \/ \E c \in Users, in \in PlanIds : archivePlan(c, in)
  \/ \E c \in Users, in \in PlanLists : listMyPlans(c, in)
  \/ \E c \in Users, in \in PlanIds : getPlanWithDetails(c, in)

ChildOps ==
  \/ \E c \in Users, in \in ChildSaves("objective") : saveObjective(c, in)
  \/ \E c \in Users, in \in ChildDeletes : deleteObjective(c, in)
  \/ \E c \in Users, in \in ChildSaves("step") : saveStep(c, in)
  \/ \E c \in Users, in \in ChildDeletes : deleteStep(c, in)
  \/ \E c \in Users, in \in ChildSaves("material") : saveMaterial(c, in)
  \/ \E c \in Users, in \in ChildDeletes : deleteMaterial(c, in)

JobOps ==
  \/ \E c \in Users, in \in JobInputs :
       \E fk \in (IF ReferencesPlan(in.planId) THEN {FALSE} ELSE BOOLEAN) :
         createJob(c, in, fk)
  \/ \E c \in Users, in \in JobUpdates : updateJob(c, in)
  \/ \E c \in Users, in \in JobLists : listJobs(c, in)

\* createPlan with a title alone
PlainPlan == \E c \in Users : createPlan(c, [title |-> "t1", status |-> None])

RowCount == Len(plans) + ChildTotal + Len(jobs)

\* a request is handled when the response of the one before it has gone back
Next ==
  \/ /\ res = Idle
     /\ \/ PlanOps
        \/ ChildOps
        \/ JobOps
        \/ \E op \in Ops : requireUser(op)
        \/ Tick
     /\ RowCount' <= MaxRows
  \/ Reply

PlanNext ==
  \/ /\ res = Idle
     /\ \/ PlanOps
        \/ \E op \in Ops : requireUser(op)
        \/ Tick
  \/ Reply

ChildNext ==
  \/ /\ res = Idle
     /\ \/ PlainPlan
        \/ ChildOps
        \/ \E c \in Users, in \in PlanIds : getPlanWithDetails(c, in)
        \/ \E op \in Ops : requireUser(op)
  \/ Reply

JobNext ==
  \/ /\ res = Idle
     /\ \/ PlainPlan
        \/ JobOps
        \/ \E op \in Ops : requireUser(op)
  \/ Reply

\* createPlan is a single statement; the child handlers run statement by statement
ConcNext ==
  \/ res = Idle /\ PlainPlan
  \/ Reply
  \/ \E p \in Procs, k \in Kinds, c \in Users :
       \/ \E in \in ConcSaves(k) : Call(p, SaveOp(k), c, in)
       \/ \E in \in ConcDeletes : Call(p, DeleteOp(k), c, in)
  \/ \E p \in Procs : StmtSelectChild(p)
  \/ \E p \in Procs : StmtUpdateChild(p)
  \/ \E p \in Procs : StmtInsertChild(p)
  \/ \E p \in Procs : StmtDeleteChild(p)
  \/ \E p \in Procs : Return(p)

\* every writing handler runs statement by statement, the statements of the two
\* slots in any order
\* the requests in flight together come from different users
UserOf(p) == IF p = "p1" THEN "u1" ELSE "u2"

OwnNext ==
  \/ \E p \in Procs : CallCreatePlan(p, UserOf(p), [title |-> "t1", status |-> None])
  \/ \E p \in Procs, k \in OwnKinds :
       \/ \E in \in ConcSaves(k) : Call(p, SaveOp(k), UserOf(p), in)
       \/ \E in \in ConcDeletes : Call(p, DeleteOp(k), UserOf(p), in)
  \/ \E p \in Procs, in \in OwnPlanUpdates : CallUpdatePlan(p, UserOf(p), in)
  \/ \E p \in Procs, in \in OwnPlanIds : CallArchivePlan(p, UserOf(p), in)
  \/ \E p \in Procs, in \in OwnJobInputs : CallCreateJob(p, UserOf(p), in)
  \/ \E p \in Procs, in \in OwnJobUpdates : CallUpdateJob(p, UserOf(p), in)
  \/ \E p \in Procs : StmtSelectChild(p)
  \/ \E p \in Procs : StmtUpdateChild(p)
  \/ \E p \in Procs : StmtInsertChild(p)
  \/ \E p \in Procs : StmtDeleteChild(p)
  \/ \E p \in Procs : StmtUpdatePlan(p)
  \/ \E p \in Procs : StmtInsertJob(p)
  \/ \E p \in Procs : StmtUpdateJob(p)
  \/ \E p \in Procs : Return(p)

Spec == Init /\ [][Next]_vars
PlanSpec == Init /\ [][PlanNext]_vars
ChildSpec == Init /\ [][ChildNext]_vars
JobSpec == Init /\ [][JobNext]_vars
ConcSpec == Init /\ [][ConcNext]_vars
OwnSpec == Init /\ [][OwnNext]_vars
\* ------------------------------------------------------------------ claims
OwnsPlan(user, planId) == \E p \in PlanRows : p.id = planId /\ p.ownerId = user
ChildOpNames == SaveOps \cup DeleteOps

\* C1: a plan is stored with its creator as ownerId, no operation changes a plan's
\* ownerId, and listMyPlans called by user V, with or without a status filter, returns
\* only stored plans whose ownerId is V
C1_ListOnlyOwn ==
  [][/\ (res'.op = "createPlan" /\ res'.err = "ok")
        => (plans' = Append(plans, res'.row) /\ res'.row.ownerId = res'.caller)
     /\ \A i \in 1..Len(plans) : plans'[i].ownerId = plans[i].ownerId
     /\ (res'.op = "listMyPlans" /\ res'.err = "ok")
        => /\ res'.rows \subseteq PlanRows
           /\ \A p \in res'.rows : p.ownerId = res'.caller]_vars

\* listMyPlans returned a plan of its caller while another user's plan is stored
C1_Witness ==
  /\ res.op = "listMyPlans"
  /\ res.err = "ok"
  /\ res.rows # {}
  /\ \E p \in PlanRows : p.ownerId # res.caller /\ (res.in.status = None \/ p.status = res.in.status)

\* C2: a child save or delete whose planId is a plan the caller does not own fails
\* with NotFound, whether or not the child id exists, and changes no child table
C2_NonOwnerNotFound ==
  [][(/\ res'.op \in ChildOpNames
      /\ res'.caller \in Users
      /\ \E p \in PlanRows : p.id = res'.in.planId /\ p.ownerId # res'.caller)
     => (res'.err = "NotFound" /\ UNCHANGED <<children, lastChildId>>)]_vars

\* a non-owner's save or delete of a row that exists under the plan was refused
C2_Witness ==
  /\ res.op \in ChildOpNames
  /\ res.err = "NotFound"
  /\ \E p \in PlanRows : p.id = res.in.planId /\ p.ownerId # res.caller
  /\ \E r \in children[KindOf(res.op)] : r.id = res.in.id /\ r.planId = res.in.planId

\* C3: a save by the owner of plan Q with planId = Q and the id of a row stored under
\* another plan fails with NotFound and changes nothing; and no step changes the
\* planId of a stored child row
C3_NoReassignment ==
  [][/\ (/\ res'.op \in SaveOps
         /\ res'.caller \in Users
         /\ OwnsPlan(res'.caller, res'.in.planId)
         /\ \E r \in children[KindOf(res'.op)] :
              r.id = res'.in.id /\ r.planId # res'.in.planId)
        => (res'.err = "NotFound" /\ UNCHANGED <<children, lastChildId>>)
     /\ \A k \in Kinds : \A r \in children[k] : \A q \in children'[k] :
          r.id = q.id => r.planId = q.planId]_vars

\* the owner of a plan saved, under it, the id of a row of another plan, and was refused
C3_Witness ==
  /\ res.op \in SaveOps
  /\ res.err = "NotFound"
  /\ OwnsPlan(res.caller, res.in.planId)
  /\ \E r \in children[KindOf(res.op)] : r.id = res.in.id /\ r.planId # res.in.planId

\* C4: updatePlan and updateJob called by the owner with the id alone succeed, return
\* the stored row as it is and change nothing in the store (updatedAt included), so
\* that the call repeated returns the same from the same state
C4_EmptyUpdateNoOp ==
  [][/\ (/\ res'.op = "updatePlan"
         /\ res'.caller \in Users
         /\ res'.in.title = None /\ res'.in.status = None
         /\ OwnsPlan(res'.caller, res'.in.id))
        => (res'.err = "ok" /\ res'.row = plans[res'.in.id] /\ UNCHANGED <<db, clock>>)
     /\ (/\ res'.op = "updateJob"
         /\ res'.caller \in Users
         /\ res'.in.output = None /\ res'.in.status = None
         /\ \E j \in JobRows : j.id = res'.in.id /\ j.userId = res'.caller)
        => (res'.err = "ok" /\ res'.row = jobs[res'.in.id] /\ UNCHANGED <<db, clock>>)]_vars

\* updatePlan with the id alone returned a plan last written before the clock moved on
C4_Witness ==
  /\ res.op = "updatePlan"
  /\ res.err = "ok"
  /\ res.in.title = None /\ res.in.status = None
  /\ res.row \in PlanRows
  /\ res.row.updatedAt < clock

\* C5 as stated: once archived, a plan's status stays archived
C5_ArchivedIsTerminal ==
  [][\A i \in 1..Len(plans) :
       plans[i].status = "archived" => plans'[i].status = "archived"]_vars

\* C5 amended: the status of an archived plan changes only in an updatePlan call by
\* the plan's owner that carries a status, and becomes the status the call carries
C5_ArchivedLeftOnlyByOwnerUpdate ==
  [][\A i \in 1..Len(plans) :
       (plans[i].status = "archived" /\ plans'[i].status # "archived")
       => /\ res'.op = "updatePlan"
          /\ res'.err = "ok"
          /\ res'.caller = plans[i].ownerId
          /\ res'.in.id = i
          /\ res'.in.status = plans'[i].status]_vars

\* the owner's updatePlan carrying a title and no status acted on an archived plan
C5_Witness ==
  /\ res.op = "updatePlan"
  /\ res.err = "ok"
  /\ res.in.status = None /\ res.in.title # None
  /\ res.row \in PlanRows
  /\ res.row.status = "archived"

\* C6 as stated: a job's status changes only in an updateJob call by the job's owner
\* that carries a status, and only from pending to completed or failed
C6_JobStatusForwardOnly ==
  [][\A i \in 1..Len(jobs) :
       jobs'[i].status # jobs[i].status
       => /\ res'.op = "updateJob"
          /\ res'.caller = jobs[i].userId
          /\ res'.in.status # None
          /\ jobs[i].status = "pending"
          /\ jobs'[i].status \in {"completed", "failed"}]_vars

\* C6 amended: a job's status changes only in an updateJob call by the job's owner
\* that carries a status, and becomes the status the call carries, whichever it was
C6_JobStatusOnlyByOwnerUpdate ==
  [][\A i \in 1..Len(jobs) :
       jobs'[i].status # jobs[i].status
       => /\ res'.op = "updateJob"
          /\ res'.err = "ok"
          /\ res'.caller = jobs[i].userId
          /\ res'.in.id = i
          /\ res'.in.status = jobs'[i].status]_vars

\* the owner's updateJob carrying a status set it on a job created with another
C6_Witness ==
  /\ res.op = "updateJob"
  /\ res.err = "ok"
  /\ res.in.status = "completed"
  /\ res.row \in JobRows
  /\ res.row.status = "completed"
  /\ res.row.userId = res.caller

\* C7 as stated: listJobs with a planId the caller owns returns the caller's jobs of
\* that plan and no other (matching the status filter), and with no planId all the
\* caller's jobs (matching the status filter)
C7_ListJobsByPlan ==
  (res.op = "listJobs" /\ res.err = "ok") =>
    LET mine == {j \in JobRows :
                   /\ j.userId = res.caller
                   /\ (res.in.status # None => j.status = res.in.status)}
    IN /\ (res.in.planId # NoNum /\ OwnsPlan(res.caller, res.in.planId))
            => res.rows = {j \in mine : j.planId = res.in.planId}
       /\ res.in.planId = NoNum => res.rows = mine

\* C8 as stated: createJob and listJobs with a supplied planId that is no plan of the
\* caller fail with NotFound, and every stored job with a planId references a plan
\* owned by the job's user
C8_JobPlanChecked ==
  /\ (/\ res.op \in {"createJob", "listJobs"}
      /\ res.caller \in Users
      /\ res.in.planId # NoNum
      /\ ~OwnsPlan(res.caller, res.in.planId))
     => res.err = "NotFound"
  /\ \A j \in JobRows : j.planId # NoNum => OwnsPlan(j.userId, j.planId)

\* C9: a delete by the plan's owner that matches a row by id and planId succeeds,
\* returns that row and removes it alone, after which no row has its id (the delete
\* repeated matches none); a delete that matches no row, one whose id is stored under
\* another plan included, fails with NotFound and removes nothing
C9_DeleteOnce ==
  [][(/\ res'.op \in DeleteOps
      /\ res'.caller \in Users
      /\ OwnsPlan(res'.caller, res'.in.planId)) =>
       LET k == KindOf(res'.op)
           match == {r \in children[k] : r.id = res'.in.id /\ r.planId = res'.in.planId}
       IN IF match # {}
          THEN /\ res'.err = "ok"
               /\ match = {res'.row}
               /\ children' = [children EXCEPT ![k] = @ \ {res'.row}]
               /\ ~\E r \in children'[k] : r.id = res'.in.id
               /\ UNCHANGED lastChildId
          ELSE /\ res'.err = "NotFound"
               /\ UNCHANGED <<children, lastChildId>>]_vars

\* the owner's delete of an id that was given to a row and is stored no more was refused
C9_Witness ==
  /\ res.op \in DeleteOps
  /\ res.err = "NotFound"
  /\ OwnsPlan(res.caller, res.in.planId)
  /\ res.in.id \in 1..lastChildId[KindOf(res.op)]
  /\ ~\E r \in children[KindOf(res.op)] : r.id = res.in.id

\* C10 as stated: a save on the update path that has returned either failed with
\* NotFound or returned a row
C10_SaveReturnsRow ==
  \A p \in Procs :
    (procs[p].pc = "done" /\ procs[p].op \in SaveOps /\ Truthy(procs[p].in.id))
    => (procs[p].ret.err = "NotFound" \/ procs[p].ret.row # NoRow)

\* the request whose statement a step runs
Mover(p) == procs'[p] # procs[p]

\* C11: whatever the order of the statements of requests of different users, a plan
\* is inserted with the request's caller as owner and changed only by a request of
\* its owner, a child row is inserted, changed or deleted only by a request of the
\* owner of the plan it is under, a job is inserted with the caller as userId and
\* changed only by a request of that user; ownerId and userId never change and no
\* plan or job is removed
C11_OnlyOwnerWrites ==
  [][\E p \in Procs :
       LET c == procs'[p].caller
       IN /\ Len(plans') >= Len(plans) /\ Len(jobs') >= Len(jobs)
          /\ \A i \in 1..Len(plans) :
               /\ plans'[i].id = plans[i].id /\ plans'[i].ownerId = plans[i].ownerId
               /\ plans'[i] # plans[i] => (Mover(p) /\ c = plans[i].ownerId)
          /\ \A i \in (Len(plans) + 1)..Len(plans') : Mover(p) /\ plans'[i].ownerId = c
          /\ \A k \in Kinds :
               \A r \in (children[k] \ children'[k]) \cup (children'[k] \ children[k]) :
                 Mover(p) /\ OwnsPlan(c, r.planId)
          /\ \A i \in 1..Len(jobs) :
               /\ jobs'[i].id = jobs[i].id /\ jobs'[i].userId = jobs[i].userId
               /\ jobs'[i] # jobs[i] => (Mover(p) /\ c = jobs[i].userId)
          /\ \A i \in (Len(jobs) + 1)..Len(jobs') : Mover(p) /\ jobs'[i].userId = c]_vars

\* a save has changed a row by its id alone while a request of another user, past
\* its own ownership check, was about to write
C11_Witness ==
  \E p, q \in Procs :
    /\ procs[p].caller # procs[q].caller
    /\ procs[p].pc = "done" /\ procs[p].op \in SaveOps /\ Truthy(procs[p].in.id)
    /\ procs[p].ret.err = "ok" /\ procs[p].ret.row \in children[KindOf(procs[p].op)]
    /\ procs[q].pc \in {"update", "insert", "delete", "updatePlan", "insertJob", "updateJob"}
====
